---- MODULE Spec2Model ----
(***************************************************************************)
(* Bookstore backend: cart lifecycle, checkout (cart -> order) and the     *)
(* admin catalogue operations that touch a book's stock, price and title.  *)
(* The database tables are the state; every controller is an action.       *)
(***************************************************************************)
EXTENDS Integers, Naturals, Sequences, FiniteSets, TLC

\* ------------------------------------------------------------------ bounds
MaxCarts == 2      \* Cart rows (AUTO_INCREMENT ids 1..MaxCarts)
MaxStock == 2      \* largest stock / quantity value an input carries

\* -------------------------------------------------------- program constants
MaxQuantity == 999 \* parseQuantity: q > 999 is rejected
MinQuantity == 1   \* parseQuantity: q < 1 is rejected

Users == {"u1", "u2"}          \* authenticated customers (req.user.id)
Titles == {"A", "B"}           \* trimmed, non-empty titles
OneTitle == {"A"}
OnePrice == {1}
Opt(S) == {{}} \cup {{v} : v \in S}   \* an optional request field: {} when absent

BookIds == {1, 2}                 \* Book ids (AUTO_INCREMENT) in use
StockInputs == (0 - 1)..MaxStock                 \* -1 is the invalid input
PriceInputs == {1, 2}               \* prices the admin sets
QuantityInputs == (0..MaxStock) \cup {MaxQuantity + 1}

VARIABLES
  books,       \* Book table: sequence, id = index
  carts,       \* Cart table: sequence, id = index
  cartItems,   \* CartItem table: set of rows keyed (cartId, bookId)
  orders,      \* Order table: set of rows keyed id, cartId unique
  orderItems,  \* OrderItem table: set of rows keyed (orderId, bookId)
  resp,        \* the response of the last request
  txs,         \* the open transactions of the concurrent scenarios
  reviews,     \* Review table: sequence, id = index, (userId, bookId) unique
  reviewLikes, \* ReviewLike table: set of rows keyed (userId, reviewId)
  comments,    \* Comment table: sequence, id = index
  commentLikes \* CommentLike table: set of rows keyed (userId, commentId)

social == <<reviews, reviewLikes, comments, commentLikes>>
vars == <<books, carts, cartItems, orders, orderItems, resp, txs, social>>
db == <<books, carts, cartItems, orders, orderItems, social>>

\* ------------------------------------------------------------- responses
Response(op, user, code) == [op |-> op, user |-> user, code |-> code]

\* ---------------------------------------------------------------- helpers
RECURSIVE SumLines(_)
\* reduce((sum, it) => sum + Number(it.unitPrice) * it.quantity, 0)
SumLines(S) ==
  IF S = {} THEN 0
  ELSE LET it == CHOOSE x \in S : TRUE
       IN it.unitPrice * it.quantity + SumLines(S \ {it})

parseQuantityAllowsZero(q) == q >= 0 /\ q <= MaxQuantity

\* parseQuantity: an integer in 1..999
parseQuantity(q) == q >= MinQuantity /\ q <= MaxQuantity

\* prisma.cart.findFirst({ where: { userId, status: "ACTIVE" } }): the rows it may return
ActiveCartIds(cs, u) ==
  {i \in DOMAIN cs : cs[i].userId = u /\ cs[i].status = "ACTIVE"}

CreateCartUniqueActive(cs, u) ==
  IF ActiveCartIds(cs, u) # {} THEN cs
  ELSE Append(cs, [userId |-> u, status |-> "ACTIVE"])

\* prisma.cart.create({ data: { userId, status: "ACTIVE" } }): the Cart table
\* has no unique key over (userId, status), the INSERT always succeeds
CreateCart(cs, u) == Append(cs, [userId |-> u, status |-> "ACTIVE"])

getOrCreateActiveCartAlwaysCreates(cs, u) == CreateCart(cs, u)

getOrCreateActiveCartNeverCreates(cs, u) == cs

\* getOrCreateActiveCart: the Cart table after the call
getOrCreateActiveCart(cs, u) ==
  IF ActiveCartIds(cs, u) # {} THEN cs ELSE CreateCart(cs, u)

\* the id of the cart getOrCreateActiveCart returns, from the table it found
ReturnedCartIds(cs, u) ==
  IF ActiveCartIds(cs, u) # {} THEN ActiveCartIds(cs, u) ELSE {Len(cs) + 1}

\* prisma.book.findFirst({ where: { id, deletedAt: null } })
LiveBook(bs, b) == b \in DOMAIN bs /\ ~bs[b].deleted

ItemsOf(items, c) == {it \in items : it.cartId = c}
LineOfWholeCart(items, c, b) == {it \in items : it.cartId = c}

\* where: { cartId_bookId: { cartId, bookId } }
LineOf(items, c, b) == {it \in items : it.cartId = c /\ it.bookId = b}

\* ------------------------------------------------------------------- Init
\* the Review, ReviewLike, Comment and CommentLike tables are empty
NoReviews ==
  /\ reviews = <<>>
  /\ reviewLikes = {}
  /\ comments = <<>>
  /\ commentLikes = {}

\* a Book row as created: avgRating and reviewCount take their default 0
NewBook(title, price, stock) ==
  [title |-> title, price |-> price, stock |-> stock, deleted |-> FALSE,
   avgRating |-> 0, reviewCount |-> 0]

Init ==
  /\ books = <<>>
  /\ carts = <<>>
  /\ cartItems = {}
  /\ orders = {}
  /\ orderItems = {}
  /\ resp = Response("none", "none", "none")
  /\ txs = <<>>
  /\ NoReviews

\* ------------------------------------------------------------ admin: books
ValidStockUnchecked(stock) == TRUE

\* createBookController / updateBookController: stock must be an integer >= 0
ValidStock(stock) == stock >= 0

createBook(title, price, stock) ==
  /\ IF ~ValidStock(stock)
     THEN /\ resp' = Response("createBook", "admin", "VALIDATION_FAILED")
          /\ UNCHANGED <<books>>
     ELSE /\ books' = Append(books, NewBook(title, price, stock))
          /\ resp' = Response("createBook", "admin", "SUCCESS")
  /\ UNCHANGED <<carts, cartItems, orders, orderItems, txs, social>>

\* dataToUpdate: a field is written only when the body carries it
Given(field, old) == IF field = {} THEN old ELSE CHOOSE v \in field : TRUE

updateBookRewritingOrders(b, title, price, stock) ==
  /\ IF ~LiveBook(books, b)
     THEN /\ resp' = Response("updateBook", "admin", "RESOURCE_NOT_FOUND")
          /\ UNCHANGED <<books, orderItems>>
     ELSE /\ books' = [books EXCEPT ![b].title = Given(title, @),
                                    ![b].price = Given(price, @)]
          /\ orderItems' = {[oi EXCEPT !.bookTitleSnapshot =
                                IF oi.bookId = b THEN books'[b].title ELSE @,
                              !.unitPrice =
                                IF oi.bookId = b THEN books'[b].price ELSE @] :
                             oi \in orderItems}
          /\ resp' = Response("updateBook", "admin", "SUCCESS")
  /\ UNCHANGED <<carts, cartItems, orders, txs, social>>

\* updateBookController: each of title, price, stock is optional
updateBook(b, title, price, stock) ==
  /\ IF ~LiveBook(books, b)
     THEN /\ resp' = Response("updateBook", "admin", "RESOURCE_NOT_FOUND")
          /\ UNCHANGED books
     ELSE IF \E s \in stock : ~ValidStock(s)
     THEN /\ resp' = Response("updateBook", "admin", "VALIDATION_FAILED")
          /\ UNCHANGED books
     ELSE /\ books' = [books EXCEPT ![b] =
                [title |-> Given(title, @.title),
                 price |-> Given(price, @.price),
                 stock |-> Given(stock, @.stock),
                 deleted |-> @.deleted,
                 avgRating |-> @.avgRating, reviewCount |-> @.reviewCount]]
          /\ resp' = Response("updateBook", "admin", "SUCCESS")
  /\ UNCHANGED <<carts, cartItems, orders, orderItems, txs, social>>

\* deleteBookController: soft delete, a repeated delete succeeds
deleteBook(b) ==
  /\ IF b \notin DOMAIN books
     THEN /\ resp' = Response("deleteBook", "admin", "RESOURCE_NOT_FOUND")
          /\ UNCHANGED books
     ELSE /\ books' = [books EXCEPT ![b].deleted = TRUE]
          /\ resp' = Response("deleteBook", "admin", "SUCCESS")
  /\ UNCHANGED <<carts, cartItems, orders, orderItems, txs, social>>

\* ------------------------------------------------------------------- cart
\* listCartController: GET /cart
listCart(u) ==
  /\ carts' = getOrCreateActiveCart(carts, u)
  /\ resp' = Response("listCart", u, "SUCCESS")
  /\ UNCHANGED <<books, cartItems, orders, orderItems, txs, social>>

\* addCartItemController, `book.stock < q`
StockBelow(stock, q) == stock < q

\* addCartItemController, `newQty > book.stock`
ExceedsStock(newQty, stock) == newQty > stock

\* addCartItemController, tx.cartItem.create: the price is captured from the book
NewLine(c, b, q, price) ==
  [cartId |-> c, bookId |-> b, quantity |-> q, unitPrice |-> price]

SetQuantityReprices(it, q) ==
  [it EXCEPT !.quantity = q, !.unitPrice = books[it.bookId].price]

SetQuantityAdds(it, q) == [it EXCEPT !.quantity = @ + q]

\* tx.cartItem.update({ data: { quantity } }): only the quantity is written
SetQuantity(it, q) == [it EXCEPT !.quantity = q]

\* addCartItemController after getOrCreateActiveCart returned cart c: the book
\* lookup, the stock check and the create-or-update of the line
addItemOnCart(u, c, b, q) ==
  IF ~LiveBook(books, b)
  THEN /\ resp' = Response("addItem", u, "RESOURCE_NOT_FOUND")
       /\ UNCHANGED cartItems
  ELSE IF StockBelow(books[b].stock, q)
  THEN /\ resp' = Response("addItem", u, "UNPROCESSABLE_ENTITY")
       /\ UNCHANGED cartItems
  ELSE IF LineOf(cartItems, c, b) = {}
  THEN /\ cartItems' = cartItems \cup {NewLine(c, b, q, books[b].price)}
       /\ resp' = Response("addItem", u, "SUCCESS")
  ELSE LET existing == CHOOSE it \in LineOf(cartItems, c, b) : TRUE
           newQty == existing.quantity + q
       IN IF ExceedsStock(newQty, books[b].stock)
          THEN /\ resp' = Response("addItem", u, "UNPROCESSABLE_ENTITY")
               /\ UNCHANGED cartItems
          ELSE /\ cartItems' = (cartItems \ {existing})
                                 \cup {SetQuantity(existing, newQty)}
               /\ resp' = Response("addItem", u, "SUCCESS")

\* addCartItemController: POST /cart/items
addItem(u, b, q) ==
  IF ~parseQuantity(q)
  THEN /\ resp' = Response("addItem", u, "VALIDATION_FAILED")
       /\ UNCHANGED <<db, txs>>
  ELSE
    /\ carts' = getOrCreateActiveCart(carts, u)
    /\ \E c \in ReturnedCartIds(carts, u) : addItemOnCart(u, c, b, q)
    /\ UNCHANGED <<books, orders, orderItems, txs, social>>

\* updateCartItemController: PATCH /cart/items/:bookId
updateItem(u, b, q) ==
  IF ~parseQuantity(q)
  THEN /\ resp' = Response("updateItem", u, "VALIDATION_FAILED")
       /\ UNCHANGED <<db, txs>>
  ELSE
    /\ carts' = getOrCreateActiveCart(carts, u)
    /\ \E c \in ReturnedCartIds(carts, u) :
         IF ~LiveBook(books, b)
         THEN /\ resp' = Response("updateItem", u, "RESOURCE_NOT_FOUND")
              /\ UNCHANGED cartItems
         ELSE IF StockBelow(books[b].stock, q)
         THEN /\ resp' = Response("updateItem", u, "UNPROCESSABLE_ENTITY")
              /\ UNCHANGED cartItems
         ELSE IF LineOf(cartItems, c, b) = {}
         THEN /\ resp' = Response("updateItem", u, "RESOURCE_NOT_FOUND")
              /\ UNCHANGED cartItems
         ELSE LET existing == CHOOSE it \in LineOf(cartItems, c, b) : TRUE
              IN /\ cartItems' = (cartItems \ {existing})
                                   \cup {SetQuantity(existing, q)}
                 /\ resp' = Response("updateItem", u, "SUCCESS")
    /\ UNCHANGED <<books, orders, orderItems, txs, social>>

removeItemRestocks(u, b) ==
  /\ carts' = getOrCreateActiveCart(carts, u)
  /\ \E c \in ReturnedCartIds(carts, u) :
       /\ cartItems' = cartItems \ LineOf(cartItems, c, b)
       /\ books' = [i \in DOMAIN books |->
                      IF i = b /\ LineOf(cartItems, c, b) # {}
                      THEN [books[i] EXCEPT !.stock = @ + 1] ELSE books[i]]
  /\ resp' = Response("removeItem", u, "SUCCESS")
  /\ UNCHANGED <<orders, orderItems, txs, social>>

\* removeCartItemController: DELETE /cart/items/:bookId (deleteMany)
removeItem(u, b) ==
  /\ carts' = getOrCreateActiveCart(carts, u)
  /\ \E c \in ReturnedCartIds(carts, u) :
       cartItems' = cartItems \ LineOf(cartItems, c, b)
  /\ resp' = Response("removeItem", u, "SUCCESS")
  /\ UNCHANGED <<books, orders, orderItems, txs, social>>

\* --------------------------------------------------------------- checkout
\* createOrderFromCartController, step 3: `it.book.stock < it.quantity`
InsufficientStock(stock, quantity) == stock < quantity

ValidateCartIgnoringDeleted(bs, items) ==
  IF items = {} THEN "UNPROCESSABLE_ENTITY"
  ELSE IF \E it \in items : InsufficientStock(bs[it.bookId].stock, it.quantity)
       THEN "UNPROCESSABLE_ENTITY"
  ELSE "SUCCESS"

\* createOrderFromCartController, steps 2-3: the error thrown for the cart's lines
ValidateCart(bs, items) ==
  IF items = {} THEN "UNPROCESSABLE_ENTITY"
  ELSE IF \E it \in items : bs[it.bookId].deleted THEN "UNPROCESSABLE_ENTITY"
  ELSE IF \E it \in items : InsufficientStock(bs[it.bookId].stock, it.quantity)
       THEN "UNPROCESSABLE_ENTITY"
  ELSE "SUCCESS"

RECURSIVE TotalAmountAtLivePrice(_)
TotalAmountAtLivePrice(items) ==
  IF items = {} THEN 0
  ELSE LET it == CHOOSE x \in items : TRUE
       IN books[it.bookId].price * it.quantity + TotalAmountAtLivePrice(items \ {it})

\* step 4: totalAmount from the cart lines' captured unitPrice
TotalAmount(items) == SumLines(items)

\* Order.id is AUTO_INCREMENT: the next id after the ids in use
NextId(ids) == IF ids = {} THEN 1 ELSE (CHOOSE i \in ids : \A j \in ids : j <= i) + 1

\* step 5: tx.order.create
NewOrder(o, u, c, items) ==
  [id |-> o, userId |-> u, cartId |-> c, status |-> "PENDING",
   paymentStatus |-> "UNPAID", totalAmount |-> TotalAmount(items)]

NewOrderItemWithoutTitle(o, it, title) ==
  [orderId |-> o, bookId |-> it.bookId, quantity |-> it.quantity,
   unitPrice |-> it.unitPrice, bookTitleSnapshot |-> ""]

\* step 6: tx.orderItem.create, one per cart line
NewOrderItem(o, it, title) ==
  [orderId |-> o, bookId |-> it.bookId, quantity |-> it.quantity,
   unitPrice |-> it.unitPrice, bookTitleSnapshot |-> title]

DecrementByOne(stock, quantity) == stock - 1

\* step 6: tx.book.update({ data: { stock: { decrement: it.quantity } } })
Decrement(stock, quantity) == stock - quantity

\* the Book table after the decrements of all lines
BooksAfterCheckout(bs, items) ==
  [b \in DOMAIN bs |->
     IF \E it \in items : it.bookId = b
     THEN [bs[b] EXCEPT !.stock =
             Decrement(@, (CHOOSE it \in items : it.bookId = b).quantity)]
     ELSE bs[b]]

CheckedOutAbandons(cs, c) == [cs EXCEPT ![c].status = "ABANDONED"]

\* step 7: tx.cart.update({ data: { status: "CHECKED_OUT" } })
CheckedOut(cs, c) == [cs EXCEPT ![c].status = "CHECKED_OUT"]

CommitsDespiteError(err) == TRUE

\* the $transaction callback returns (and the transaction commits) unless it threw
Commits(err) == err = "SUCCESS"

\* createOrderFromCartController: POST /orders, one transaction
checkout(u) ==
  IF ActiveCartIds(carts, u) = {}
  THEN /\ resp' = Response("checkout", u, "RESOURCE_NOT_FOUND")
       /\ UNCHANGED <<db, txs>>
  ELSE \E c \in ActiveCartIds(carts, u) :
    LET items == ItemsOf(cartItems, c)
        err == ValidateCart(books, items)
        o == NextId({x.id : x \in orders})
    IN /\ resp' = Response("checkout", u, err)
       /\ IF Commits(err)
          THEN /\ orders' = orders \cup {NewOrder(o, u, c, items)}
               /\ orderItems' = orderItems \cup
                    {NewOrderItem(o, it, books[it.bookId].title) : it \in items}
               /\ books' = BooksAfterCheckout(books, items)
               /\ carts' = CheckedOut(carts, c)
               /\ UNCHANGED <<cartItems, txs, social>>
          ELSE UNCHANGED <<db, txs>>

\* ------------------------------------------------------ the whole program
\* A field with a single possible value is never sent in an update: writing
\* the value the row already holds changes nothing.
Fresh(S) == IF Cardinality(S) = 1 THEN {} ELSE S

\* The Cart table holds at most K rows: a request that would create row K + 1
\* is not issued.
CartRoom(u, K) == Len(getOrCreateActiveCart(carts, u)) <= K

\* Every request of the API, for callers U, book ids B, titles T, prices P,
\* stock values S and at most K carts.
Requests(U, B, T, P, S, K) ==
  \/ \E t \in T, p \in P, s \in S :
       Len(books) + 1 \in B /\ createBook(t, p, s)
  \/ \E b \in B, t \in Opt(Fresh(T)), p \in Opt(Fresh(P)),
        s \in Opt(Fresh(S)) : updateBook(b, t, p, s)
  \/ \E b \in B : deleteBook(b)
  \/ \E u \in U : CartRoom(u, K) /\ listCart(u)
  \/ \E u \in U, b \in B, q \in QuantityInputs : CartRoom(u, K) /\ addItem(u, b, q)
  \/ \E u \in U, b \in B, q \in QuantityInputs : CartRoom(u, K) /\ updateItem(u, b, q)
  \/ \E u \in U, b \in B : CartRoom(u, K) /\ removeItem(u, b)
  \/ \E u \in U : checkout(u)

\* One customer and one cart, two books of one title and price: stock rules.
Next == Requests({"u1"}, BookIds, OneTitle, OnePrice, StockInputs, MaxCarts - 1)
Spec == Init /\ [][Next]_vars

\* Two customers and one book: the rules that are per user.
NextUsers == Requests(Users, {1}, OneTitle, OnePrice, StockInputs, MaxCarts)
SpecUsers == Init /\ [][NextUsers]_vars

\* One customer whose books the admin retitles: title snapshots.
NextTitles == Requests({"u1"}, BookIds, Titles, OnePrice, {MaxStock}, MaxCarts - 1)
SpecTitles == Init /\ [][NextTitles]_vars

\* One customer whose books the admin reprices: price capture.
NextPrices == Requests({"u1"}, BookIds, OneTitle, PriceInputs, {MaxStock}, MaxCarts - 1)
SpecPrices == Init /\ [][NextPrices]_vars

\* One customer and one book that the admin retitles, reprices and deletes
\* while the customer goes through several carts: the orders already placed.
NextOrders == Requests({"u1"}, {1}, Titles, PriceInputs, {MaxStock}, MaxCarts)
SpecOrders == Init /\ [][NextOrders]_vars

\* quantities and stock values at the limit of parseQuantity
LimitQuantities == {MaxQuantity \div 2 + 1, MaxQuantity, MaxQuantity + 1}
LimitStocks == {MaxQuantity + 1, 2 * MaxQuantity}

\* One customer and one book whose stock exceeds the largest quantity a
\* request may carry: the quantity limit.
NextLimits ==
  \/ \E s \in LimitStocks : Len(books) = 0 /\ createBook("A", 1, s)
  \/ \E s \in LimitStocks : updateBook(1, {}, {}, {s})
  \/ deleteBook(1)
  \/ CartRoom("u1", MaxCarts - 1) /\ listCart("u1")
  \/ \E q \in LimitQuantities : CartRoom("u1", MaxCarts - 1) /\ addItem("u1", 1, q)
  \/ \E q \in LimitQuantities : CartRoom("u1", MaxCarts - 1) /\ updateItem("u1", 1, q)
  \/ CartRoom("u1", MaxCarts - 1) /\ removeItem("u1", 1)
  \/ checkout("u1")
SpecLimits == Init /\ [][NextLimits]_vars
\* ============================================ concurrent checkouts (POST /orders)
\* Two checkout requests run as two database transactions whose statements
\* interleave.  $transaction is called without an isolationLevel, so the server
\* default applies: a plain SELECT takes no lock and reads the transaction's
\* snapshot (REPEATABLE READ) or the last committed rows (READ COMMITTED); an
\* INSERT or UPDATE locks the row it writes until commit or rollback, an UPDATE
\* works on the last committed row, and writes are seen by others at commit.
TxIds == {1, 2}
IsolationLevels == {"REPEATABLE READ", "READ COMMITTED"}

Committed == [books |-> books, carts |-> carts, cartItems |-> cartItems]

\* what a plain SELECT of transaction t reads
View(t) ==
  IF txs[t].iso = "REPEATABLE READ" THEN txs[t].snap ELSE Committed

OtherOpen(t) == {x \in TxIds \ {t} : txs[x].pc # "done"}

CartIdTakenNoIndex(os, c) == FALSE

\* UNIQUE INDEX Order_cartId_key: an Order row with this cartId exists
CartIdTaken(os, c) == \E o \in os : o.cartId = c

\* the transaction ends: its writes are dropped (rollback) or were applied
Finished(tx, code) ==
  [tx EXCEPT !.pc = "done", !.code = code, !.wOrders = {}, !.wItems = {},
             !.wStock = <<>>, !.wCart = {}, !.pending = {}]

\* a thrown error rolls the transaction back and is answered by errorHandler
txThrow(t, code) ==
  /\ txs' = [txs EXCEPT ![t] = Finished(@, code)]
  /\ resp' = Response("checkout", txs[t].user, code)
  /\ UNCHANGED db

\* step 1: tx.cart.findFirst({ where: { userId, status: "ACTIVE" } })
txFindCart(t) ==
  /\ txs[t].pc = "findCart"
  /\ IF ActiveCartIds(carts, txs[t].user) = {}
     THEN txThrow(t, "RESOURCE_NOT_FOUND")
     ELSE /\ \E c \in ActiveCartIds(carts, txs[t].user) :
               txs' = [txs EXCEPT ![t].pc = "readItems", ![t].cart = c,
                                  ![t].snap = Committed]
          /\ UNCHANGED <<db, resp>>

\* steps 2-4: tx.cartItem.findMany({ include: { book } }), validation, totalAmount
txReadItems(t) ==
  /\ txs[t].pc = "readItems"
  /\ LET items == ItemsOf(View(t).cartItems, txs[t].cart)
         err == ValidateCart(View(t).books, items)
     IN IF ~Commits(err)
        THEN txThrow(t, err)
        ELSE /\ txs' = [txs EXCEPT ![t].pc = "createOrder", ![t].items = items,
                          ![t].titles = [b \in {it.bookId : it \in items} |->
                                           View(t).books[b].title]]
             /\ UNCHANGED <<db, resp>>

\* step 5: tx.order.create; the INSERT waits while another open transaction
\* holds the same cartId key, and fails (P2002) when the key is committed
txCreateOrder(t) ==
  /\ txs[t].pc = "createOrder"
  /\ \A x \in OtherOpen(t) : ~CartIdTaken(txs[x].wOrders, txs[t].cart)
  /\ IF CartIdTaken(orders, txs[t].cart)
     THEN txThrow(t, "INTERNAL_SERVER_ERROR")
     ELSE LET used == {o.id : o \in orders} \cup
                      UNION {{o.id : o \in txs[x].wOrders} : x \in TxIds}
              o == NewOrder(NextId(used), txs[t].user, txs[t].cart, txs[t].items)
          IN /\ txs' = [txs EXCEPT ![t].pc = "writeItems", ![t].wOrders = {o},
                                   ![t].pending = txs[t].items]
             /\ UNCHANGED <<db, resp>>

\* step 6, one line: tx.orderItem.create and tx.book.update (decrement); the
\* UPDATE waits while another open transaction holds the book row
txWriteItem(t) ==
  /\ txs[t].pc = "writeItems"
  /\ txs[t].pending # {}
  /\ LET it == CHOOSE x \in txs[t].pending :
                 \A y \in txs[t].pending : x.bookId <= y.bookId
         o == CHOOSE x \in txs[t].wOrders : TRUE
         rest == txs[t].pending \ {it}
     IN /\ \A x \in OtherOpen(t) : it.bookId \notin DOMAIN txs[x].wStock
        /\ txs' = [txs EXCEPT
             ![t].wItems = @ \cup {NewOrderItem(o.id, it, txs[t].titles[it.bookId])},
             ![t].wStock = [b \in DOMAIN @ \cup {it.bookId} |->
                              IF b = it.bookId
                              THEN Decrement(books[b].stock, it.quantity)
                              ELSE @[b]],
             ![t].pending = rest,
             ![t].pc = IF rest = {} THEN "updateCart" ELSE "writeItems"]
  /\ UNCHANGED <<db, resp>>

\* step 7: tx.cart.update({ data: { status: "CHECKED_OUT" } })
txUpdateCart(t) ==
  /\ txs[t].pc = "updateCart"
  /\ \A x \in OtherOpen(t) : txs[t].cart \notin txs[x].wCart
  /\ txs' = [txs EXCEPT ![t].pc = "commit", ![t].wCart = {txs[t].cart}]
  /\ UNCHANGED <<db, resp>>

\* the callback returned: COMMIT publishes the writes
txCommit(t) ==
  /\ txs[t].pc = "commit"
  /\ orders' = orders \cup txs[t].wOrders
  /\ orderItems' = orderItems \cup txs[t].wItems
  /\ books' = [b \in DOMAIN books |->
                 IF b \in DOMAIN txs[t].wStock
                 THEN [books[b] EXCEPT !.stock = txs[t].wStock[b]]
                 ELSE books[b]]
  /\ carts' = [c \in DOMAIN carts |->
                 IF c \in txs[t].wCart THEN CheckedOut(carts, c)[c] ELSE carts[c]]
  /\ txs' = [txs EXCEPT ![t] = Finished(@, "SUCCESS")]
  /\ resp' = Response("checkout", txs[t].user, "SUCCESS")
  /\ UNCHANGED <<cartItems, social>>

NewTx(u, iso) ==
  [user |-> u, iso |-> iso, pc |-> "findCart", cart |-> 0,
   snap |-> [books |-> <<>>, carts |-> <<>>, cartItems |-> {}],
   items |-> {}, titles |-> <<>>, pending |-> {},
   wOrders |-> {}, wItems |-> {}, wStock |-> <<>>, wCart |-> {}, code |-> "none"]

\* One book; u1 and u2 each own an ACTIVE cart holding a line of that book;
\* two checkout requests, of the same user or of different users, are issued.
InitCheckoutRace ==
  /\ \E s \in 0..MaxStock :
       books = <<NewBook("A", 1, s)>>
  /\ carts = <<[userId |-> "u1", status |-> "ACTIVE"],
               [userId |-> "u2", status |-> "ACTIVE"]>>
  /\ \E q1, q2 \in 1..MaxStock :
       cartItems = {NewLine(1, 1, q1, 1), NewLine(2, 1, q2, 1)}
  /\ orders = {}
  /\ orderItems = {}
  /\ NoReviews
  /\ resp = Response("none", "none", "none")
  /\ \E iso \in IsolationLevels : \E u1, u2 \in Users :
       txs = [t \in TxIds |-> NewTx(IF t = 1 THEN u1 ELSE u2, iso)]

NextCheckoutRace ==
  \/ \E t \in TxIds : txFindCart(t)
  \/ \E t \in TxIds : txReadItems(t)
  \/ \E t \in TxIds : txCreateOrder(t)
  \/ \E t \in TxIds : txWriteItem(t)
  \/ \E t \in TxIds : txUpdateCart(t)
  \/ \E t \in TxIds : txCommit(t)

SpecCheckoutRace == InitCheckoutRace /\ [][NextCheckoutRace]_vars

\* ================================== concurrent cart requests (POST /cart/items)
\* getOrCreateActiveCart runs outside any transaction: its findFirst and its
\* create are two statements, and statements of two requests interleave.
NewRequest(u, q) == [user |-> u, q |-> q, pc |-> "find", found |-> "?", cart |-> 0]

\* getOrCreateActiveCart: prisma.cart.findFirst
reqFindCart(t) ==
  /\ txs[t].pc = "find"
  /\ IF ActiveCartIds(carts, txs[t].user) = {}
     THEN txs' = [txs EXCEPT ![t].pc = "create", ![t].found = "none"]
     ELSE \E c \in ActiveCartIds(carts, txs[t].user) :
            txs' = [txs EXCEPT ![t].pc = "body", ![t].found = "cart", ![t].cart = c]
  /\ UNCHANGED <<db, resp>>

\* getOrCreateActiveCart: prisma.cart.create, reached when findFirst found none
reqCreateCart(t) ==
  /\ txs[t].pc = "create"
  /\ carts' = CreateCart(carts, txs[t].user)
  /\ txs' = [txs EXCEPT ![t].pc = "body", ![t].cart = Len(carts')]
  /\ UNCHANGED <<books, cartItems, orders, orderItems, resp, social>>

\* the rest of addCartItemController on the cart that was returned
reqAddItem(t) ==
  /\ txs[t].pc = "body"
  /\ addItemOnCart(txs[t].user, txs[t].cart, 1, txs[t].q)
  /\ txs' = [txs EXCEPT ![t].pc = "done"]
  /\ UNCHANGED <<books, carts, orders, orderItems, social>>

\* One book; u1 has no cart yet or an ACTIVE one; two addItem requests, of the
\* same user or of different users, with valid quantities are issued.
InitCartRace ==
  /\ \E s \in 0..MaxStock :
       books = <<NewBook("A", 1, s)>>
  /\ \E n \in 0..1 :
       carts = [i \in 1..n |-> [userId |-> "u1", status |-> "ACTIVE"]]
  /\ cartItems = {}
  /\ orders = {}
  /\ orderItems = {}
  /\ NoReviews
  /\ resp = Response("none", "none", "none")
  /\ \E u1, u2 \in Users : \E q1, q2 \in 1..MaxStock :
       txs = [t \in TxIds |-> IF t = 1 THEN NewRequest(u1, q1) ELSE NewRequest(u2, q2)]

NextCartRace ==
  \/ \E t \in TxIds : reqFindCart(t)
  \/ \E t \in TxIds : reqCreateCart(t)
  \/ \E t \in TxIds : reqAddItem(t)

SpecCartRace == InitCartRace /\ [][NextCartRace]_vars

\* =========================== concurrent upserts of one line (POST /cart/items)
\* addCartItemController reads the cart and the book, then runs a transaction
\* of two statements: cartItem.findUnique and cartItem.create or
\* cartItem.update with the quantity computed from the row it read. The
\* findUnique is a plain SELECT, the first read of its transaction: it takes
\* no lock and returns the committed row under either isolation level. The
\* create or update locks the row until the transaction ends.
NewAddItemTx(u, q) ==
  [user |-> u, q |-> q, pc |-> "lookup", cart |-> 0, stock |-> 0, price |-> 0,
   existing |-> {}, wLine |-> {}, code |-> "none"]

\* the request ends: the transaction's write is dropped or was applied
AddItemTxEnd(tx, code) == [tx EXCEPT !.pc = "done", !.code = code, !.wLine = {}]

aiThrow(t, code) ==
  /\ txs' = [txs EXCEPT ![t] = AddItemTxEnd(@, code)]
  /\ resp' = Response("addItem", txs[t].user, code)
  /\ UNCHANGED <<books, cartItems, orders, orderItems, social>>

\* getOrCreateActiveCart, book.findFirst and the check `book.stock < q`
aiLookup(t) ==
  LET tx == txs[t] IN
  /\ tx.pc = "lookup"
  /\ carts' = getOrCreateActiveCart(carts, tx.user)
  /\ IF ~LiveBook(books, 1)
     THEN aiThrow(t, "RESOURCE_NOT_FOUND")
     ELSE IF StockBelow(books[1].stock, tx.q)
     THEN aiThrow(t, "UNPROCESSABLE_ENTITY")
     ELSE /\ \E c \in ReturnedCartIds(carts, tx.user) :
               txs' = [txs EXCEPT ![t].pc = "findLine", ![t].cart = c,
                         ![t].stock = books[1].stock, ![t].price = books[1].price]
          /\ UNCHANGED <<books, cartItems, orders, orderItems, social, resp>>

\* tx.cartItem.findUnique({ where: { cartId_bookId } })
aiFindLine(t) ==
  /\ txs[t].pc = "findLine"
  /\ txs' = [txs EXCEPT ![t].pc = "writeLine",
                        ![t].existing = LineOf(cartItems, txs[t].cart, 1)]
  /\ UNCHANGED <<db, resp>>

\* another open transaction has written the line (cart c, book 1)
LinePending(t, c) ==
  \E o \in TxIds \ {t} : \E w \in txs[o].wLine : w.cartId = c

\* tx.cartItem.create when findUnique returned no row (a committed row of the
\* same primary key makes the INSERT fail), else the check `newQty >
\* book.stock` and tx.cartItem.update({ data: { quantity: newQty } }); either
\* write waits while another transaction holds the row
aiWriteLine(t) ==
  LET tx == txs[t]
      row == LineOf(cartItems, tx.cart, 1)
  IN /\ tx.pc = "writeLine"
     /\ carts' = carts
     /\ IF tx.existing = {}
        THEN /\ ~LinePending(t, tx.cart)
             /\ IF row # {}
                THEN aiThrow(t, "INTERNAL_SERVER_ERROR")
                ELSE /\ txs' = [txs EXCEPT ![t].pc = "commit",
                               ![t].wLine = {NewLine(tx.cart, 1, tx.q, tx.price)}]
                     /\ UNCHANGED <<books, cartItems, orders, orderItems, social, resp>>
        ELSE LET newQty == (CHOOSE it \in tx.existing : TRUE).quantity + tx.q
             IN IF ExceedsStock(newQty, tx.stock)
                THEN aiThrow(t, "UNPROCESSABLE_ENTITY")
                ELSE /\ ~LinePending(t, tx.cart)
                     /\ txs' = [txs EXCEPT ![t].pc = "commit",
                               ![t].wLine = {SetQuantity(it, newQty) : it \in row}]
                     /\ UNCHANGED <<books, cartItems, orders, orderItems, social, resp>>

\* the callback returned: COMMIT publishes the line
aiCommit(t) ==
  LET tx == txs[t] IN
  /\ tx.pc = "commit"
  /\ cartItems' = (cartItems \ LineOf(cartItems, tx.cart, 1)) \cup tx.wLine
  /\ txs' = [txs EXCEPT ![t] = AddItemTxEnd(@, "SUCCESS")]
  /\ resp' = Response("addItem", tx.user, "SUCCESS")
  /\ UNCHANGED <<books, carts, orders, orderItems, social>>

\* One book; u1 and u2 each own an ACTIVE cart, with or without a line of the
\* book; two addItem requests for the book, of the same user or of different
\* users, are issued.
InitLineRace ==
  /\ \E s \in 0..(MaxStock + 1) : books = <<NewBook("A", 1, s)>>
  /\ carts = <<[userId |-> "u1", status |-> "ACTIVE"],
               [userId |-> "u2", status |-> "ACTIVE"]>>
  /\ \E lines \in SUBSET {NewLine(1, 1, 1, 1), NewLine(2, 1, 1, 1)} :
       cartItems = lines
  /\ orders = {}
  /\ orderItems = {}
  /\ NoReviews
  /\ resp = Response("none", "none", "none")
  /\ \E u1, u2 \in Users : \E q1, q2 \in 1..MaxStock :
       txs = [t \in TxIds |-> IF t = 1 THEN NewAddItemTx(u1, q1)
                                        ELSE NewAddItemTx(u2, q2)]

NextLineRace ==
  \/ \E t \in TxIds : aiLookup(t)
  \/ \E t \in TxIds : aiFindLine(t)
  \/ \E t \in TxIds : aiWriteLine(t)
  \/ \E t \in TxIds : aiCommit(t)

SpecLineRace == InitLineRace /\ [][NextLineRace]_vars

\* ================================================================= reviews
\* rating must be an integer in 1..5
MinRating == 1
MaxRating == 5

\* AVG(rating) is a DECIMAL with four fractional digits: avgRating is held as
\* an integer number of 1/RatingScale
RatingScale == 10000

ValidRating(r) == r >= MinRating /\ r <= MaxRating

\* content must be a string that is not empty after trim()
ValidContent(c) == c # ""

\* a Review row as created: counters and deletedAt take their defaults
NewReview(u, b, rating, content) ==
  [userId |-> u, bookId |-> b, rating |-> rating, content |-> content,
   likeCount |-> 0, commentCount |-> 0, deleted |-> FALSE]

\* where: { bookId, deletedAt: null }
LiveReviewIds(rs, b) == {i \in DOMAIN rs : rs[i].bookId = b /\ ~rs[i].deleted}

RECURSIVE SumRatings(_, _)
SumRatings(rs, ids) ==
  IF ids = {} THEN 0
  ELSE LET i == CHOOSE x \in ids : TRUE
       IN rs[i].rating + SumRatings(rs, ids \ {i})

\* _avg.rating ?? 0: NULL over no row, else the quotient rounded to the scale
AvgRating(rs, ids) ==
  IF ids = {} THEN 0
  ELSE (2 * RatingScale * SumRatings(rs, ids) + Cardinality(ids))
         \div (2 * Cardinality(ids))

RecomputeSkipped(bs, rs, b) == bs

\* review.aggregate over the book's live reviews, then book.update
Recompute(bs, rs, b) ==
  [bs EXCEPT ![b].reviewCount = Cardinality(LiveReviewIds(rs, b)),
             ![b].avgRating = AvgRating(rs, LiveReviewIds(rs, b))]

ReviewKeyTakenNoIndex(rs, u, b) == FALSE

\* UNIQUE INDEX Review_userId_bookId_key: soft-deleted rows keep their key
ReviewKeyTaken(rs, u, b) == \E i \in DOMAIN rs : rs[i].userId = u /\ rs[i].bookId = b

\* where: { id, deletedAt: null }
LiveReview(rs, r) == r \in DOMAIN rs /\ ~rs[r].deleted

\* createReviewForBookController: POST /reviews/books/:bookId
createReview(u, b, rating, content) ==
  /\ IF ~ValidContent(content) \/ ~ValidRating(rating)
     THEN /\ resp' = Response("createReview", u, "VALIDATION_FAILED")
          /\ UNCHANGED <<books, reviews>>
     ELSE IF ~LiveBook(books, b)
     THEN /\ resp' = Response("createReview", u, "RESOURCE_NOT_FOUND")
          /\ UNCHANGED <<books, reviews>>
     ELSE IF ReviewKeyTaken(reviews, u, b)
     THEN /\ resp' = Response("createReview", u, "DUPLICATE_RESOURCE")
          /\ UNCHANGED <<books, reviews>>
     ELSE /\ reviews' = Append(reviews, NewReview(u, b, rating, content))
          /\ books' = Recompute(books, reviews', b)
          /\ resp' = Response("createReview", u, "SUCCESS")
  /\ UNCHANGED <<carts, cartItems, orders, orderItems, txs,
                 reviewLikes, comments, commentLikes>>

\* updateReviewController: PATCH /reviews/:id, rating and content optional
updateReview(u, r, rating, content) ==
  /\ IF ~LiveReview(reviews, r)
     THEN /\ resp' = Response("updateReview", u, "RESOURCE_NOT_FOUND")
          /\ UNCHANGED <<books, reviews>>
     ELSE IF reviews[r].userId # u
     THEN /\ resp' = Response("updateReview", u, "FORBIDDEN")
          /\ UNCHANGED <<books, reviews>>
     ELSE IF (rating = {} /\ content = {})
             \/ (\E x \in rating : ~ValidRating(x))
             \/ (\E c \in content : ~ValidContent(c))
     THEN /\ resp' = Response("updateReview", u, "VALIDATION_FAILED")
          /\ UNCHANGED <<books, reviews>>
     ELSE /\ reviews' = [reviews EXCEPT ![r].rating = Given(rating, @),
                                        ![r].content = Given(content, @)]
          /\ books' = Recompute(books, reviews', reviews[r].bookId)
          /\ resp' = Response("updateReview", u, "SUCCESS")
  /\ UNCHANGED <<carts, cartItems, orders, orderItems, txs,
                 reviewLikes, comments, commentLikes>>

deleteReviewByAnyone(u, r) ==
  /\ IF r \notin DOMAIN reviews
     THEN /\ resp' = Response("deleteReview", u, "RESOURCE_NOT_FOUND")
          /\ UNCHANGED <<books, reviews, reviewLikes>>
     ELSE IF reviews[r].deleted
     THEN /\ resp' = Response("deleteReview", u, "SUCCESS")
          /\ UNCHANGED <<books, reviews, reviewLikes>>
     ELSE /\ reviews' = [reviews EXCEPT ![r].deleted = TRUE]
          /\ reviewLikes' = {l \in reviewLikes : l.reviewId # r}
          /\ books' = Recompute(books, reviews', reviews[r].bookId)
          /\ resp' = Response("deleteReview", u, "SUCCESS")
  /\ UNCHANGED <<carts, cartItems, orders, orderItems, txs, comments, commentLikes>>

\* deleteReviewController: DELETE /reviews/:id, soft delete
deleteReview(u, r) ==
  /\ IF r \notin DOMAIN reviews
     THEN /\ resp' = Response("deleteReview", u, "RESOURCE_NOT_FOUND")
          /\ UNCHANGED <<books, reviews, reviewLikes>>
     ELSE IF reviews[r].userId # u
     THEN /\ resp' = Response("deleteReview", u, "FORBIDDEN")
          /\ UNCHANGED <<books, reviews, reviewLikes>>
     ELSE IF reviews[r].deleted
     THEN /\ resp' = Response("deleteReview", u, "SUCCESS")
          /\ UNCHANGED <<books, reviews, reviewLikes>>
     ELSE /\ reviews' = [reviews EXCEPT ![r].deleted = TRUE]
          /\ reviewLikes' = {l \in reviewLikes : l.reviewId # r}
          /\ books' = Recompute(books, reviews', reviews[r].bookId)
          /\ resp' = Response("deleteReview", u, "SUCCESS")
  /\ UNCHANGED <<carts, cartItems, orders, orderItems, txs, comments, commentLikes>>

\* a ReviewLike / CommentLike row
ReviewLike(u, r) == [userId |-> u, reviewId |-> r]
CommentLike(u, c) == [userId |-> u, commentId |-> c]

ReviewLikedIgnored(likes, u, r) == FALSE

\* tx.reviewLike.findUnique({ where: { userId_reviewId } })
ReviewLiked(likes, u, r) == ReviewLike(u, r) \in likes

\* likeReviewController: POST /reviews/:id/like
likeReview(u, r) ==
  /\ IF ~LiveReview(reviews, r)
     THEN /\ resp' = Response("likeReview", u, "RESOURCE_NOT_FOUND")
          /\ UNCHANGED <<reviews, reviewLikes>>
     ELSE IF ReviewLiked(reviewLikes, u, r)
     THEN /\ resp' = Response("likeReview", u, "SUCCESS")
          /\ UNCHANGED <<reviews, reviewLikes>>
     ELSE /\ reviewLikes' = reviewLikes \cup {ReviewLike(u, r)}
          /\ reviews' = [reviews EXCEPT ![r].likeCount = @ + 1]
          /\ resp' = Response("likeReview", u, "SUCCESS")
  /\ UNCHANGED <<books, carts, cartItems, orders, orderItems, txs,
                 comments, commentLikes>>

\* unlikeReviewController: DELETE /reviews/:id/like
unlikeReview(u, r) ==
  /\ IF ~ReviewLiked(reviewLikes, u, r)
     THEN UNCHANGED <<reviews, reviewLikes>>
     ELSE /\ reviewLikes' = reviewLikes \ {ReviewLike(u, r)}
          /\ reviews' = [reviews EXCEPT ![r].likeCount = @ - 1]
  /\ resp' = Response("unlikeReview", u, "SUCCESS")
  /\ UNCHANGED <<books, carts, cartItems, orders, orderItems, txs,
                 comments, commentLikes>>

\* ================================================================ comments
\* a Comment row as created
NewComment(u, r, content) ==
  [reviewId |-> r, userId |-> u, content |-> content, likeCount |-> 0,
   deleted |-> FALSE]

\* createCommentController: POST /comments/reviews/:reviewId
createComment(u, r, content) ==
  /\ IF ~ValidContent(content)
     THEN /\ resp' = Response("createComment", u, "VALIDATION_FAILED")
          /\ UNCHANGED <<reviews, comments>>
     ELSE IF ~LiveReview(reviews, r)
     THEN /\ resp' = Response("createComment", u, "RESOURCE_NOT_FOUND")
          /\ UNCHANGED <<reviews, comments>>
     ELSE /\ comments' = Append(comments, NewComment(u, r, content))
          /\ reviews' = [reviews EXCEPT ![r].commentCount = @ + 1]
          /\ resp' = Response("createComment", u, "SUCCESS")
  /\ UNCHANGED <<books, carts, cartItems, orders, orderItems, txs,
                 reviewLikes, commentLikes>>

\* updateCommentController: PATCH /comments/:id
updateComment(u, c, content) ==
  /\ IF ~ValidContent(content)
     THEN /\ resp' = Response("updateComment", u, "VALIDATION_FAILED")
          /\ UNCHANGED comments
     ELSE IF c \notin DOMAIN comments \/ comments[c].deleted
     THEN /\ resp' = Response("updateComment", u, "RESOURCE_NOT_FOUND")
          /\ UNCHANGED comments
     ELSE IF comments[c].userId # u
     THEN /\ resp' = Response("updateComment", u, "FORBIDDEN")
          /\ UNCHANGED comments
     ELSE /\ comments' = [comments EXCEPT ![c].content = content]
          /\ resp' = Response("updateComment", u, "SUCCESS")
  /\ UNCHANGED <<books, carts, cartItems, orders, orderItems, txs,
                 reviews, reviewLikes, commentLikes>>

deleteCommentDecrementsAgain(u, c) ==
  /\ IF c \notin DOMAIN comments
     THEN /\ resp' = Response("deleteComment", u, "RESOURCE_NOT_FOUND")
          /\ UNCHANGED <<reviews, comments>>
     ELSE IF comments[c].userId # u
     THEN /\ resp' = Response("deleteComment", u, "FORBIDDEN")
          /\ UNCHANGED <<reviews, comments>>
     ELSE /\ comments' = [comments EXCEPT ![c].deleted = TRUE]
          /\ reviews' = [reviews EXCEPT ![comments[c].reviewId].commentCount = @ - 1]
          /\ resp' = Response("deleteComment", u, "SUCCESS")
  /\ UNCHANGED <<books, carts, cartItems, orders, orderItems, txs,
                 reviewLikes, commentLikes>>

\* deleteCommentController: DELETE /comments/:id, soft delete
deleteComment(u, c) ==
  /\ IF c \notin DOMAIN comments
     THEN /\ resp' = Response("deleteComment", u, "RESOURCE_NOT_FOUND")
          /\ UNCHANGED <<reviews, comments>>
     ELSE IF comments[c].userId # u
     THEN /\ resp' = Response("deleteComment", u, "FORBIDDEN")
          /\ UNCHANGED <<reviews, comments>>
     ELSE IF comments[c].deleted
     THEN /\ resp' = Response("deleteComment", u, "SUCCESS")
          /\ UNCHANGED <<reviews, comments>>
     ELSE /\ comments' = [comments EXCEPT ![c].deleted = TRUE]
          /\ reviews' = [reviews EXCEPT ![comments[c].reviewId].commentCount = @ - 1]
          /\ resp' = Response("deleteComment", u, "SUCCESS")
  /\ UNCHANGED <<books, carts, cartItems, orders, orderItems, txs,
                 reviewLikes, commentLikes>>

\* likeCommentController: POST /comments/:id/like; the comment is not looked
\* up, a like of a missing comment fails on CommentLike_commentId_fkey
likeComment(u, c) ==
  /\ IF CommentLike(u, c) \in commentLikes
     THEN /\ resp' = Response("likeComment", u, "SUCCESS")
          /\ UNCHANGED <<comments, commentLikes>>
     ELSE IF c \notin DOMAIN comments
     THEN /\ resp' = Response("likeComment", u, "INTERNAL_SERVER_ERROR")
          /\ UNCHANGED <<comments, commentLikes>>
     ELSE /\ commentLikes' = commentLikes \cup {CommentLike(u, c)}
          /\ comments' = [comments EXCEPT ![c].likeCount = @ + 1]
          /\ resp' = Response("likeComment", u, "SUCCESS")
  /\ UNCHANGED <<books, carts, cartItems, orders, orderItems, txs,
                 reviews, reviewLikes>>

\* unlikeCommentController: DELETE /comments/:id/like
unlikeComment(u, c) ==
  /\ IF CommentLike(u, c) \notin commentLikes
     THEN UNCHANGED <<comments, commentLikes>>
     ELSE /\ commentLikes' = commentLikes \ {CommentLike(u, c)}
          /\ comments' = [comments EXCEPT ![c].likeCount = @ - 1]
  /\ resp' = Response("unlikeComment", u, "SUCCESS")
  /\ UNCHANGED <<books, carts, cartItems, orders, orderItems, txs,
                 reviews, reviewLikes>>

\* ------------------------------------------- the review and comment requests
RatingInputs == {0, 4, 5}
ContentInputs == {"", "c"}

\* at most MaxComments Comment rows are created
MaxComments == 1

\* Every review request, for callers U, book ids B, ratings R, contents C.
ReviewRequests(U, B, R, C) ==
  \/ \E u \in U, b \in B, x \in R, c \in C : createReview(u, b, x, c)
  \/ \E u \in U, r \in 1..(Len(reviews) + 1), x \in Opt(R), c \in Opt(Fresh(C)) :
       updateReview(u, r, x, c)
  \/ \E u \in U, r \in 1..(Len(reviews) + 1) : deleteReview(u, r)

\* Every like request on reviews, for callers U.
ReviewLikeRequests(U) ==
  \/ \E u \in U, r \in 1..(Len(reviews) + 1) : likeReview(u, r)
  \/ \E u \in U, r \in 1..(Len(reviews) + 1) : unlikeReview(u, r)

\* Every comment request, for callers U, contents C, at most K comments.
CommentRequests(U, C, K) ==
  \/ \E u \in U, r \in 1..(Len(reviews) + 1), c \in C :
       Len(comments) < K /\ createComment(u, r, c)
  \/ \E u \in U, c \in 1..(Len(comments) + 1), x \in C : updateComment(u, c, x)
  \/ \E u \in U, c \in 1..(Len(comments) + 1) : deleteComment(u, c)
  \/ \E u \in U, c \in 1..(Len(comments) + 1) : likeComment(u, c)
  \/ \E u \in U, c \in 1..(Len(comments) + 1) : unlikeComment(u, c)

\* the admin's book requests that reviews depend on
BookRequests(B) ==
  \/ \E b \in B : Len(books) + 1 = b /\ createBook("A", 1, 0)
  \/ \E b \in B : deleteBook(b)

Reviewers == {"u1", "u2", "u3"}

\* Three reviewers of one book: the rating aggregate.
NextRatings ==
  \/ BookRequests({1})
  \/ ReviewRequests(Reviewers, {1}, RatingInputs, {"c"})
SpecRatings == Init /\ [][NextRatings]_vars

\* One review of u1 that two users like and comment on: the counters.
NextLikes ==
  \/ BookRequests({1})
  \/ ReviewRequests({"u1"}, {1}, {5}, {"c"})
  \/ ReviewLikeRequests(Users)
  \/ CommentRequests(Users, ContentInputs, MaxComments)
SpecLikes == Init /\ [][NextLikes]_vars

\* The update and delete requests on reviews and comments, for callers U,
\* ratings R and contents C.
ModifyRequests(U, R, C) ==
  \/ \E u \in U, r \in 1..(Len(reviews) + 1), x \in Opt(R), c \in Opt(Fresh(C)) :
       updateReview(u, r, x, c)
  \/ \E u \in U, r \in 1..(Len(reviews) + 1) : deleteReview(u, r)
  \/ \E u \in U, c \in 1..(Len(comments) + 1), x \in C : updateComment(u, c, x)
  \/ \E u \in U, c \in 1..(Len(comments) + 1) : deleteComment(u, c)

\* u1 reviews the book and comments, u2 likes the review and tries to modify
\* what u1 wrote: what a user may do to the review or comment of another.
NextAuthors ==
  \/ BookRequests({1})
  \/ ReviewRequests({"u1"}, {1}, {5}, {"c"})
  \/ ReviewLikeRequests({"u2"})
  \/ CommentRequests({"u1"}, ContentInputs, MaxComments)
  \/ ModifyRequests({"u2"}, {4}, ContentInputs)
SpecAuthors == Init /\ [][NextAuthors]_vars

\* One review of u1 under which two users write and delete comments.
NextComments ==
  \/ BookRequests({1})
  \/ ReviewRequests({"u1"}, {1}, {5}, {"c"})
  \/ CommentRequests(Users, {"c"}, MaxComments + 1)
SpecComments == Init /\ [][NextComments]_vars

\* ======================================== concurrent review requests
\* A review request is a lookup outside the transaction and then a transaction
\* of three statements: the write of the Review row, review.aggregate and
\* book.update. Statements of two requests interleave. A transaction sees its
\* own writes and the committed rows, of its snapshot under REPEATABLE READ
\* (taken by the first read, the one that returns the written row), the latest
\* under READ COMMITTED. A written row is locked until the transaction ends.
NewReviewTx(u, op, r, rating, iso) ==
  [user |-> u, op |-> op, review |-> r, rating |-> rating, iso |-> iso,
   pc |-> "check", book |-> 0, snap |-> <<>>, wReviews |-> <<>>, wNew |-> {},
   agg |-> <<>>, wBook |-> {}, code |-> "none"]

ReviewOp(tx) ==
  IF tx.op = "create" THEN "createReview"
  ELSE IF tx.op = "update" THEN "updateReview" ELSE "deleteReview"

\* the transaction holds row locks: it has written and has not ended
InTx(tx) == tx.pc \in {"aggregate", "updateBook", "commit"}

\* the request ends: the transaction's writes are dropped or were applied
ReviewTxEnd(tx, code) ==
  [tx EXCEPT !.pc = "done", !.code = code, !.wReviews = <<>>, !.wNew = {},
             !.wBook = {}, !.snap = <<>>, !.agg = <<>>]

rvThrow(t, code) ==
  /\ txs' = [txs EXCEPT ![t] = ReviewTxEnd(@, code)]
  /\ resp' = Response(ReviewOp(txs[t]), txs[t].user, code)
  /\ UNCHANGED db

\* the statements before $transaction: validation is passed by the requests
\* issued here; the book (create) or the review (update, delete) is looked up
rvCheck(t) ==
  LET tx == txs[t] IN
  /\ tx.pc = "check"
  /\ IF tx.op = "create"
     THEN IF ~LiveBook(books, tx.review)
          THEN rvThrow(t, "RESOURCE_NOT_FOUND")
          ELSE /\ txs' = [txs EXCEPT ![t].pc = "write", ![t].book = tx.review]
               /\ UNCHANGED <<db, resp>>
     ELSE IF tx.review \notin DOMAIN reviews
             \/ (tx.op = "update" /\ reviews[tx.review].deleted)
     THEN rvThrow(t, "RESOURCE_NOT_FOUND")
     ELSE IF reviews[tx.review].userId # tx.user
     THEN rvThrow(t, "FORBIDDEN")
     ELSE IF reviews[tx.review].deleted
     THEN rvThrow(t, "SUCCESS")
     ELSE /\ txs' = [txs EXCEPT ![t].pc = "write",
                                ![t].book = reviews[tx.review].bookId]
          /\ UNCHANGED <<db, resp>>

\* another open transaction holds an uncommitted Review row of key (u, b)
KeyPending(t, u, b) ==
  \E o \in TxIds \ {t} : InTx(txs[o]) /\ \E n \in txs[o].wNew : n.userId = u /\ n.bookId = b

\* another open transaction has written Review row r
RowPending(t, r) == \E o \in TxIds \ {t} : InTx(txs[o]) /\ r \in DOMAIN txs[o].wReviews

\* the Book row is share-locked by the foreign key check of an insert
HoldsShared(tx, b) == InTx(tx) /\ tx.book = b /\ tx.wNew # {}

\* the Book row is exclusively locked by book.update
HoldsExclusive(tx, b) == InTx(tx) /\ b \in tx.wBook

\* tx.review.create / tx.review.update: the first statement of the transaction
rvWrite(t) ==
  LET tx == txs[t] IN
  /\ tx.pc = "write"
  /\ IF tx.op = "create"
     THEN /\ ~KeyPending(t, tx.user, tx.book)
          /\ IF ReviewKeyTaken(reviews, tx.user, tx.book)
             THEN rvThrow(t, "DUPLICATE_RESOURCE")
             ELSE /\ \A o \in TxIds \ {t} : ~HoldsExclusive(txs[o], tx.book)
                  /\ txs' = [txs EXCEPT ![t].pc = "aggregate", ![t].snap = reviews,
                               ![t].wNew = {NewReview(tx.user, tx.book, tx.rating, "c")}]
                  /\ UNCHANGED <<db, resp>>
     ELSE /\ ~RowPending(t, tx.review)
          /\ txs' = [txs EXCEPT ![t].pc = "aggregate", ![t].snap = reviews,
                       ![t].wReviews = (tx.review :> IF tx.op = "update"
                          THEN [reviews[tx.review] EXCEPT !.rating = tx.rating]
                          ELSE [reviews[tx.review] EXCEPT !.deleted = TRUE])]
          /\ UNCHANGED <<db, resp>>

\* the Review rows the transaction reads: committed rows under its own writes
ReviewView(tx) ==
  LET base == IF tx.iso = "REPEATABLE READ" THEN tx.snap ELSE reviews
      own == [i \in DOMAIN base |->
                IF i \in DOMAIN tx.wReviews THEN tx.wReviews[i] ELSE base[i]]
  IN IF tx.wNew = {} THEN own ELSE Append(own, CHOOSE n \in tx.wNew : TRUE)

\* tx.review.aggregate
rvAggregate(t) ==
  LET tx == txs[t]
      view == ReviewView(tx)
  IN /\ tx.pc = "aggregate"
     /\ txs' = [txs EXCEPT ![t].pc = "updateBook",
                  ![t].agg = <<Cardinality(LiveReviewIds(view, tx.book)),
                               AvgRating(view, LiveReviewIds(view, tx.book))>>]
     /\ UNCHANGED <<db, resp>>

\* tx.book.update: waits while another transaction holds a lock on the row
rvUpdateBook(t) ==
  LET tx == txs[t] IN
  /\ tx.pc = "updateBook"
  /\ \A o \in TxIds \ {t} :
       ~HoldsExclusive(txs[o], tx.book) /\ ~HoldsShared(txs[o], tx.book)
  /\ txs' = [txs EXCEPT ![t].pc = "commit", ![t].wBook = {tx.book}]
  /\ UNCHANGED <<db, resp>>

\* two inserts share-lock the Book row and both go on to update it: the
\* database breaks the deadlock by rolling one of them back
rvDeadlock(t) ==
  /\ txs[t].pc = "updateBook"
  /\ HoldsShared(txs[t], txs[t].book)
  /\ \E o \in TxIds \ {t} :
       HoldsShared(txs[o], txs[t].book) /\ txs[o].pc = "updateBook"
  /\ rvThrow(t, "INTERNAL_SERVER_ERROR")

\* the transaction commits: its writes become the committed rows
rvCommit(t) ==
  LET tx == txs[t]
      kept == [i \in DOMAIN reviews |->
                 IF i \in DOMAIN tx.wReviews THEN tx.wReviews[i] ELSE reviews[i]]
  IN /\ tx.pc = "commit"
     /\ reviews' = IF tx.wNew = {} THEN kept
                   ELSE Append(kept, CHOOSE n \in tx.wNew : TRUE)
     /\ reviewLikes' = IF tx.op = "delete"
                       THEN {l \in reviewLikes : l.reviewId # tx.review}
                       ELSE reviewLikes
     /\ books' = [books EXCEPT ![tx.book].reviewCount = tx.agg[1],
                               ![tx.book].avgRating = tx.agg[2]]
     /\ txs' = [txs EXCEPT ![t] = ReviewTxEnd(@, "SUCCESS")]
     /\ resp' = Response(ReviewOp(tx), tx.user, "SUCCESS")
     /\ UNCHANGED <<carts, cartItems, orders, orderItems, comments, commentLikes>>

\* the cart tables are empty
NoCarts ==
  /\ carts = <<>>
  /\ cartItems = {}
  /\ orders = {}
  /\ orderItems = {}

\* One book with the live reviews of u1 (rated 5) and u2 (rated 4); two
\* update or delete requests are issued.
InitReviewRace ==
  /\ reviews = <<NewReview("u1", 1, 5, "c"), NewReview("u2", 1, 4, "c")>>
  /\ books = Recompute(<<NewBook("A", 1, 0)>>, reviews, 1)
  /\ reviewLikes = {}
  /\ comments = <<>>
  /\ commentLikes = {}
  /\ NoCarts
  /\ resp = Response("none", "none", "none")
  /\ \E iso \in IsolationLevels :
     \E u1, u2 \in Users, o1, o2 \in {"update", "delete"}, r1, r2 \in 1..2 :
       txs = [t \in TxIds |-> IF t = 1 THEN NewReviewTx(u1, o1, r1, 1, iso)
                                        ELSE NewReviewTx(u2, o2, r2, 2, iso)]

NextReviewRace ==
  \/ \E t \in TxIds : rvCheck(t)
  \/ \E t \in TxIds : rvWrite(t)
  \/ \E t \in TxIds : rvAggregate(t)
  \/ \E t \in TxIds : rvUpdateBook(t)
  \/ \E t \in TxIds : rvCommit(t)

SpecReviewRace == InitReviewRace /\ [][NextReviewRace]_vars

\* One book, live or soft-deleted, on which u1 has no review, a live one or a
\* soft-deleted one; two createReview requests on it are issued.
InitCreateRace ==
  /\ \E rs \in {<<>>, <<NewReview("u1", 1, 5, "c")>>,
                <<[NewReview("u1", 1, 5, "c") EXCEPT !.deleted = TRUE]>>} :
     \E gone \in BOOLEAN :
       /\ reviews = rs
       /\ books = [Recompute(<<NewBook("A", 1, 0)>>, rs, 1) EXCEPT ![1].deleted = gone]
  /\ reviewLikes = {}
  /\ comments = <<>>
  /\ commentLikes = {}
  /\ NoCarts
  /\ resp = Response("none", "none", "none")
  /\ \E iso \in IsolationLevels : \E u1, u2 \in Users :
       txs = [t \in TxIds |-> IF t = 1 THEN NewReviewTx(u1, "create", 1, 4, iso)
                                        ELSE NewReviewTx(u2, "create", 1, 5, iso)]

NextCreateRace ==
  \/ NextReviewRace
  \/ \E t \in TxIds : rvDeadlock(t)

SpecCreateRace == InitCreateRace /\ [][NextCreateRace]_vars

\* ================================ concurrent likes (POST /reviews/:id/like)
\* likeReviewController looks the review up and then runs a transaction of
\* three statements: reviewLike.findUnique, reviewLike.create and
\* review.update (likeCount increment). The findUnique is a plain SELECT and
\* takes no lock. The INSERT first checks the primary key (userId, reviewId),
\* waiting for an open transaction that inserted the same key, and then
\* share-locks the Review row for the foreign key; the UPDATE needs the
\* Review row exclusively.
NewLikeTx(u, r) ==
  [user |-> u, review |-> r, pc |-> "lookup", wLike |-> {}, wCount |-> {},
   code |-> "none"]

\* the request ends: the transaction's writes are dropped or were applied
LikeTxEnd(tx, code) ==
  [tx EXCEPT !.pc = "done", !.code = code, !.wLike = {}, !.wCount = {}]

lkThrow(t, code) ==
  /\ txs' = [txs EXCEPT ![t] = LikeTxEnd(@, code)]
  /\ resp' = Response("likeReview", txs[t].user, code)
  /\ UNCHANGED db

\* prisma.review.findFirst({ where: { id, deletedAt: null } })
lkLookup(t) ==
  /\ txs[t].pc = "lookup"
  /\ IF ~LiveReview(reviews, txs[t].review)
     THEN lkThrow(t, "RESOURCE_NOT_FOUND")
     ELSE /\ txs' = [txs EXCEPT ![t].pc = "find"]
          /\ UNCHANGED <<db, resp>>

\* tx.reviewLike.findUnique; `if (exists) return` commits an empty transaction
lkFind(t) ==
  /\ txs[t].pc = "find"
  /\ IF ReviewLiked(reviewLikes, txs[t].user, txs[t].review)
     THEN /\ txs' = [txs EXCEPT ![t] = LikeTxEnd(@, "SUCCESS")]
          /\ resp' = Response("likeReview", txs[t].user, "SUCCESS")
          /\ UNCHANGED db
     ELSE /\ txs' = [txs EXCEPT ![t].pc = "create"]
          /\ UNCHANGED <<db, resp>>

\* the Review row is share-locked by the foreign key check of an insert
LikeHoldsShared(tx, r) == tx.review = r /\ tx.wLike # {}

\* the Review row is exclusively locked by review.update
LikeHoldsExclusive(tx, r) == tx.review = r /\ tx.wCount # {}

\* tx.reviewLike.create: a committed row of the same key makes the INSERT
\* fail with a unique constraint error, which no handler turns into an ApiError
lkCreate(t) ==
  LET tx == txs[t] IN
  /\ tx.pc = "create"
  /\ \A o \in TxIds \ {t} : ~ReviewLiked(txs[o].wLike, tx.user, tx.review)
  /\ IF ReviewLiked(reviewLikes, tx.user, tx.review)
     THEN lkThrow(t, "INTERNAL_SERVER_ERROR")
     ELSE /\ \A o \in TxIds \ {t} : ~LikeHoldsExclusive(txs[o], tx.review)
          /\ txs' = [txs EXCEPT ![t].pc = "update",
                                ![t].wLike = {ReviewLike(tx.user, tx.review)}]
          /\ UNCHANGED <<db, resp>>

\* tx.review.update({ data: { likeCount: { increment: 1 } } }): waits while
\* another transaction holds a lock on the Review row
lkUpdate(t) ==
  LET tx == txs[t] IN
  /\ tx.pc = "update"
  /\ \A o \in TxIds \ {t} :
       ~LikeHoldsShared(txs[o], tx.review) /\ ~LikeHoldsExclusive(txs[o], tx.review)
  /\ txs' = [txs EXCEPT ![t].pc = "commit", ![t].wCount = {tx.review}]
  /\ UNCHANGED <<db, resp>>

\* two inserts share-lock the Review row and both go on to update it: the
\* database breaks the deadlock by rolling one of them back
lkDeadlock(t) ==
  /\ txs[t].pc = "update"
  /\ \E o \in TxIds \ {t} :
       txs[o].pc = "update" /\ LikeHoldsShared(txs[o], txs[t].review)
  /\ lkThrow(t, "INTERNAL_SERVER_ERROR")

\* the callback returned: COMMIT publishes the like row and the counter
lkCommit(t) ==
  LET tx == txs[t] IN
  /\ tx.pc = "commit"
  /\ reviewLikes' = reviewLikes \cup tx.wLike
  /\ reviews' = [reviews EXCEPT ![tx.review].likeCount = @ + 1]
  /\ txs' = [txs EXCEPT ![t] = LikeTxEnd(@, "SUCCESS")]
  /\ resp' = Response("likeReview", tx.user, "SUCCESS")
  /\ UNCHANGED <<books, carts, cartItems, orders, orderItems, comments, commentLikes>>

\* One book with a review of u1, live or soft-deleted, that u1 has not liked
\* and u2 has liked or not; two likeReview requests on it, of the same user or
\* of different users, are issued.
InitLikeRace ==
  /\ \E liked \in SUBSET {ReviewLike("u2", 1)} : \E gone \in BOOLEAN :
       /\ reviewLikes = liked
       /\ reviews = <<[NewReview("u1", 1, 5, "c") EXCEPT
                         !.likeCount = Cardinality(liked), !.deleted = gone]>>
       /\ books = Recompute(<<NewBook("A", 1, 0)>>, reviews, 1)
  /\ comments = <<>>
  /\ commentLikes = {}
  /\ NoCarts
  /\ resp = Response("none", "none", "none")
  /\ \E u1, u2 \in Users :
       txs = [t \in TxIds |-> IF t = 1 THEN NewLikeTx(u1, 1) ELSE NewLikeTx(u2, 1)]

NextLikeRace ==
  \/ \E t \in TxIds : lkLookup(t)
  \/ \E t \in TxIds : lkFind(t)
  \/ \E t \in TxIds : lkCreate(t)
  \/ \E t \in TxIds : lkUpdate(t)
  \/ \E t \in TxIds : lkDeadlock(t)
  \/ \E t \in TxIds : lkCommit(t)

SpecLikeRace == InitLikeRace /\ [][NextLikeRace]_vars

\* The seeded database, cut down to its first book: prisma/seed.ts creates
\* the book with reviewCount 0, its review by customers[0] with likeCount 0
\* and commentCount 0, then a ReviewLike row of customers[1], a Comment of
\* customers[3] with likeCount 0 and a CommentLike row of customers[4]; no
\* counter is brought up to date. u1, u2, u4, u5 stand for these customers.
InitSeed ==
  /\ books = <<NewBook("Sample Book 1", 12000, 50)>>
  /\ reviews = <<NewReview("u1", 1, 1, "seed")>>
  /\ reviewLikes = {ReviewLike("u2", 1)}
  /\ comments = <<NewComment("u4", 1, "seed")>>
  /\ commentLikes = {CommentLike("u5", 1)}
  /\ NoCarts
  /\ resp = Response("none", "none", "none")
  /\ txs = <<>>

\* The review, like and comment requests of the seeded customers.
NextSeed ==
  \/ ReviewRequests({"u1"}, {1}, {5}, {"c"})
  \/ ReviewLikeRequests({"u2"})
  \/ CommentRequests({"u4", "u5"}, {"c"}, MaxComments + 1)
SpecSeed == InitSeed /\ [][NextSeed]_vars

\* ================================================================ claims
\* quantity of book b in cart c, 0 when the cart has no such line
QuantityIn(items, c, b) ==
  IF LineOf(items, c, b) = {} THEN 0
  ELSE (CHOOSE it \in LineOf(items, c, b) : TRUE).quantity

CheckoutFailed == resp.op = "checkout" /\ resp.code # "SUCCESS"
CheckoutSucceeded == resp.op = "checkout" /\ resp.code = "SUCCESS"

\* C1: in every reachable state every book's stock is >= 0.
C1_StockNeverNegative == \A b \in DOMAIN books : books[b].stock >= 0

\* C1 witness: a checkout has just sold a book out (stock 0).
C1_Witness ==
  /\ CheckoutSucceeded
  /\ \E oi \in orderItems : books[oi.bookId].stock = 0

\* C2: a checkout that fails leaves every table as it was: no Order, no
\* OrderItem, no stock change, the cart still ACTIVE with its lines.
C2_FailedCheckoutChangesNothing ==
  [][(resp'.op = "checkout" /\ resp'.code # "SUCCESS") => UNCHANGED db]_vars

\* C2 witness: a checkout failed on a cart holding one line in stock and one
\* line out of stock; the cart is still ACTIVE and no order exists.
C2_Witness ==
  /\ CheckoutFailed /\ resp.code = "UNPROCESSABLE_ENTITY"
  /\ orders = {} /\ orderItems = {}
  /\ \E c \in ActiveCartIds(carts, resp.user) :
       \E i1, i2 \in ItemsOf(cartItems, c) :
         /\ ~books[i1.bookId].deleted /\ ~books[i2.bookId].deleted
         /\ books[i1.bookId].stock >= i1.quantity
         /\ books[i2.bookId].stock < i2.quantity

\* C4: a committed checkout lowers the stock of each book of the cart by the
\* quantity of its line and leaves every other book's stock as it was.
C4_CheckoutDecrementsByQuantity ==
  [][(resp'.op = "checkout" /\ resp'.code = "SUCCESS") =>
       \E c \in ActiveCartIds(carts, resp'.user) :
         /\ carts'[c].status = "CHECKED_OUT"
         /\ DOMAIN books' = DOMAIN books
         /\ \A b \in DOMAIN books :
              books'[b].stock = books[b].stock - QuantityIn(cartItems, c, b)]_vars

\* C4 witness: a checkout committed a line of quantity 2 while another book
\* was not in the cart.
C4_Witness ==
  /\ CheckoutSucceeded
  /\ \E o \in orders : \E oi \in orderItems :
       /\ oi.orderId = o.id /\ oi.quantity >= 2
       /\ \E b \in DOMAIN books :
            \A x \in orderItems : x.orderId = o.id => x.bookId # b

\* C5: every user has at most one ACTIVE cart.
C5_AtMostOneActiveCart ==
  \A u \in Users : Cardinality(ActiveCartIds(carts, u)) <= 1

\* C5 witness: a user who checked a cart out owns a new ACTIVE cart that
\* later cart requests reused (it holds a line).
C5_Witness ==
  \E u \in Users :
    /\ \E i \in DOMAIN carts : carts[i].userId = u /\ carts[i].status = "CHECKED_OUT"
    /\ \E c \in ActiveCartIds(carts, u) : ItemsOf(cartItems, c) # {}

\* C8: a successful checkout creates exactly one Order (PENDING, UNPAID, the
\* caller's userId, the ACTIVE cart's id), exactly one OrderItem per cart line
\* with the line's bookId, quantity and unitPrice and the book's current title,
\* and sets that cart to CHECKED_OUT.
C8_CheckoutCreatesOrder ==
  [][(resp'.op = "checkout" /\ resp'.code = "SUCCESS") =>
       \E c \in ActiveCartIds(carts, resp'.user) :
         /\ orders \subseteq orders'
         /\ orderItems \subseteq orderItems'
         /\ \E o \in orders' \ orders :
              /\ orders' \ orders = {o}
              /\ o.status = "PENDING" /\ o.paymentStatus = "UNPAID"
              /\ o.userId = resp'.user /\ o.cartId = c
              /\ \A x \in orders : x.id # o.id /\ x.cartId # c
              /\ orderItems' \ orderItems =
                   {[orderId |-> o.id, bookId |-> it.bookId,
                     quantity |-> it.quantity, unitPrice |-> it.unitPrice,
                     bookTitleSnapshot |-> books[it.bookId].title] :
                      it \in ItemsOf(cartItems, c)}
              /\ Cardinality(orderItems' \ orderItems) =
                   Cardinality(ItemsOf(cartItems, c))
         /\ carts' = [carts EXCEPT ![c].status = "CHECKED_OUT"]]_vars

\* C8 witness: an order of two lines whose title snapshots differ.
C8_Witness ==
  /\ CheckoutSucceeded
  /\ \E o \in orders : \E x, y \in orderItems :
       /\ x.orderId = o.id /\ y.orderId = o.id
       /\ x.bookId # y.bookId
       /\ x.bookTitleSnapshot # y.bookTitleSnapshot
       /\ carts[o.cartId].status = "CHECKED_OUT"

\* the checkout result the claim prescribes for user u in the current state
C9_Expected(u) ==
  IF ActiveCartIds(carts, u) = {} THEN "RESOURCE_NOT_FOUND"
  ELSE IF \E c \in ActiveCartIds(carts, u) :
            \/ ItemsOf(cartItems, c) = {}
            \/ \E it \in ItemsOf(cartItems, c) :
                 books[it.bookId].deleted \/ it.quantity > books[it.bookId].stock
       THEN "UNPROCESSABLE_ENTITY"
  ELSE "SUCCESS"

\* C9: checkout answers RESOURCE_NOT_FOUND exactly when the caller has no ACTIVE
\* cart, UNPROCESSABLE_ENTITY exactly when the ACTIVE cart is empty or has a
\* line of a deleted book or of a quantity above the stock, and succeeds
\* otherwise; a checkout right after a successful one answers RESOURCE_NOT_FOUND.
C9_CheckoutResultCodes ==
  [][(resp'.op = "checkout" =>
        /\ resp'.code = C9_Expected(resp'.user)
        /\ (CheckoutSucceeded /\ resp.user = resp'.user
              => resp'.code = "RESOURCE_NOT_FOUND"))]_vars

\* C9 witness: a checkout answered RESOURCE_NOT_FOUND to a user whose cart was
\* checked out into an order.
C9_Witness ==
  /\ resp.op = "checkout" /\ resp.code = "RESOURCE_NOT_FOUND"
  /\ \E o \in orders : o.userId = resp.user /\ carts[o.cartId].status = "CHECKED_OUT"

\* C10: a cart line's unitPrice is the book's price when the line is created
\* and does not change while the line exists; the order's totalAmount is the
\* sum of unitPrice * quantity over the cart's lines and each OrderItem carries
\* the line's unitPrice, whatever the book's price is at checkout.
C10_CapturedPrice ==
  [][(\A it \in cartItems' :
        IF LineOf(cartItems, it.cartId, it.bookId) = {}
        THEN it.unitPrice = books[it.bookId].price
        ELSE \A old \in LineOf(cartItems, it.cartId, it.bookId) :
               it.unitPrice = old.unitPrice)
     /\ ((resp'.op = "checkout" /\ resp'.code = "SUCCESS") =>
           \E c \in ActiveCartIds(carts, resp'.user) :
             \E o \in orders' \ orders :
               /\ o.totalAmount = SumLines(ItemsOf(cartItems, c))
               /\ \A it \in ItemsOf(cartItems, c) :
                    \E oi \in orderItems' :
                      /\ oi.orderId = o.id /\ oi.bookId = it.bookId
                      /\ oi.unitPrice = it.unitPrice)]_vars

\* C10 witness: a checkout has just committed an order whose total and item
\* price differ from what the book's price at checkout would give.
C10_Witness ==
  /\ CheckoutSucceeded
  /\ \E o \in orders : \E oi \in orderItems :
       /\ oi.orderId = o.id
       /\ carts[o.cartId].userId = resp.user
       /\ oi.unitPrice # books[oi.bookId].price
       /\ o.totalAmount # books[oi.bookId].price * oi.quantity
       /\ \A x \in orderItems : x.orderId = o.id => x = oi
\* C3: two concurrent checkouts of different users on carts holding the same
\* book never oversell it: the stock never becomes negative, so that the two
\* never both commit when their quantities together exceed the stock.
C3_ConcurrentCheckoutsNeverOversell ==
  (txs[1].user # txs[2].user) => \A b \in DOMAIN books : books[b].stock >= 0

\* C6: when two cart requests of one user both find no ACTIVE cart, each
\* creates one and nothing rejects the second: the user has two ACTIVE carts.
C6_RaceCreatesTwoActiveCarts ==
  \A t1, t2 \in TxIds :
    ( /\ t1 # t2 /\ txs[t1].user = txs[t2].user
      /\ txs[t1].found = "none" /\ txs[t1].pc \in {"body", "done"}
      /\ txs[t2].found = "none" /\ txs[t2].pc \in {"body", "done"} )
    => /\ txs[t1].cart # txs[t2].cart
       /\ {txs[t1].cart, txs[t2].cart} \subseteq ActiveCartIds(carts, txs[t1].user)

\* C6 witness: both requests of one user are answered and the user owns two
\* ACTIVE carts, each holding a line.
C6_Witness ==
  /\ \A t \in TxIds : txs[t].pc = "done"
  /\ \E u \in Users :
       /\ Cardinality(ActiveCartIds(carts, u)) = 2
       /\ \A c \in ActiveCartIds(carts, u) : ItemsOf(cartItems, c) # {}

\* C7: a cart has at most one Order; a book's stock changes only together with
\* the first Order of a cart and by that order's quantity; a transaction that
\* fails leaves no Order, OrderItem or stock change; of two checkouts of the
\* same user at most one commits.
C7_CartCheckedOutOnce ==
  [][(\A c \in DOMAIN carts : Cardinality({o \in orders' : o.cartId = c}) <= 1)
     /\ (\A b \in DOMAIN books :
           books'[b].stock # books[b].stock =>
             \E o \in orders' \ orders :
               /\ \A x \in orders : x.cartId # o.cartId
               /\ \E oi \in orderItems' \ orderItems :
                    /\ oi.orderId = o.id /\ oi.bookId = b
                    /\ books'[b].stock = books[b].stock - oi.quantity)
     /\ (\A t \in TxIds :
           (txs[t].pc # "done" /\ txs'[t].pc = "done" /\ txs'[t].code # "SUCCESS")
             => UNCHANGED db)
     /\ (txs[1].user = txs[2].user =>
           ~(txs'[1].code = "SUCCESS" /\ txs'[2].code = "SUCCESS"))]_vars

\* C7 witness: two checkouts of one user ended, one committed and the other
\* was rolled back by the unique cartId key; one Order and one decrement exist.
C7_Witness ==
  /\ txs[1].user = txs[2].user
  /\ \A t \in TxIds : txs[t].pc = "done"
  /\ \E t \in TxIds : txs[t].code = "SUCCESS"
  /\ \E t \in TxIds : txs[t].code = "INTERNAL_SERVER_ERROR"
  /\ Cardinality(orders) = 1 /\ Cardinality(orderItems) = 1

\* C11: after every committed createReview, updateReview or deleteReview the
\* book's reviewCount is the number of its non-deleted reviews and avgRating
\* is their mean at the stored scale (exact whenever the mean has at most four
\* decimal digits), 0 when there is none.
C11_RatingConsistency ==
  [][(resp'.op \in {"createReview", "updateReview", "deleteReview"}
      /\ resp'.code = "SUCCESS")
     => \A b \in DOMAIN books' :
          LET ids == LiveReviewIds(reviews', b)
              n == Cardinality(ids)
              err == books'[b].avgRating * n - RatingScale * SumRatings(reviews', ids)
          IN /\ books'[b].reviewCount = n
             /\ (n = 0 => books'[b].avgRating = 0)
             /\ 2 * err <= n /\ 2 * err >= 0 - n]_vars

\* C11 witness: three live reviews rated 5, 4 and 4 after a committed review
\* request: reviewCount 3 and avgRating 4.3333.
C11_Witness ==
  /\ resp.op \in {"createReview", "updateReview"} /\ resp.code = "SUCCESS"
  /\ Cardinality(LiveReviewIds(reviews, 1)) = 3
  /\ SumRatings(reviews, LiveReviewIds(reviews, 1)) = 13
  /\ books[1].reviewCount = 3 /\ books[1].avgRating = 43333

\* the book's reviewCount and avgRating agree with its non-deleted reviews
AggregateMatches(b) ==
  LET ids == LiveReviewIds(reviews, b)
      n == Cardinality(ids)
      err == books[b].avgRating * n - RatingScale * SumRatings(reviews, ids)
  IN /\ books[b].reviewCount = n
     /\ 2 * err <= n /\ 2 * err >= 0 - n

\* C12: once two concurrent review mutations by different users on the same
\* book have both ended, the book's reviewCount and avgRating agree with its
\* non-deleted reviews.
C12_ConcurrentMutationsKeepAggregate ==
  (txs[1].user # txs[2].user /\ \A t \in TxIds : txs[t].pc = "done")
    => \A b \in DOMAIN books : AggregateMatches(b)

\* C13: likeReview by a user who already likes the review adds no ReviewLike
\* row and leaves likeCount unchanged; unlikeReview by a user who does not
\* like the review removes nothing and leaves likeCount unchanged; both
\* answer success.
C13_LikeIdempotent ==
  [][\A u \in Users : \A r \in 1..(Len(reviews) + 1) :
       /\ (ReviewLike(u, r) \in reviewLikes /\ likeReview(u, r))
            => /\ reviewLikes' = reviewLikes /\ reviews' = reviews
               /\ resp'.code = "SUCCESS"
       /\ (ReviewLike(u, r) \notin reviewLikes /\ unlikeReview(u, r))
            => /\ reviewLikes' = reviewLikes /\ reviews' = reviews
               /\ resp'.code = "SUCCESS"]_vars

\* C13 witness: a like request of a user was answered with success and the
\* review holds that user's single like row, counted once.
C13_Witness ==
  \E u \in Users :
    /\ resp = Response("likeReview", u, "SUCCESS")
    /\ reviewLikes = {ReviewLike(u, 1)}
    /\ reviews[1].likeCount = 1

\* C14: the likeCount of every review, soft-deleted or not, is the number of
\* its ReviewLike rows, and the likeCount of every comment is the number of
\* its CommentLike rows.
C14_LikeCountMatchesRows ==
  /\ \A r \in DOMAIN reviews :
       reviews[r].likeCount = Cardinality({l \in reviewLikes : l.reviewId = r})
  /\ \A c \in DOMAIN comments :
       comments[c].likeCount = Cardinality({l \in commentLikes : l.commentId = c})

\* the user has a Review row on the book, soft-deleted or not
HasReview(rs, u, b) == \E i \in DOMAIN rs : rs[i].userId = u /\ rs[i].bookId = b

LinesOfUser(u, b) ==
  {it \in cartItems : it.bookId = b /\ it.cartId \in DOMAIN carts
                      /\ carts[it.cartId].userId = u
                      /\ carts[it.cartId].status = "ACTIVE"}

\* C16: addItem for a book that has a line in the caller's ACTIVE cart sets
\* the line's quantity to the old quantity plus the requested one and keeps
\* its unitPrice, whatever the book's price is now; when the sum exceeds the
\* book's stock it fails with UNPROCESSABLE_ENTITY and the line is unchanged.
C16_AddItemAccumulates ==
  [][\A u \in Users, b \in BookIds, q \in QuantityInputs : \A old \in LinesOfUser(u, b) :
       (addItem(u, b, q) /\ q >= 1 /\ q <= 999 /\ ~books[b].deleted)
       => IF old.quantity + q > books[b].stock
          THEN resp'.code = "UNPROCESSABLE_ENTITY" /\ cartItems' = cartItems
          ELSE /\ resp'.code = "SUCCESS"
               /\ cartItems' = (cartItems \ {old})
                    \cup {[cartId |-> old.cartId, bookId |-> b,
                           quantity |-> old.quantity + q,
                           unitPrice |-> old.unitPrice]}]_vars

\* C16 witness: after a successful addItem the cart's only line holds
\* quantity 2 at a unitPrice that is no longer the book's price.
C16_Witness ==
  /\ resp = Response("addItem", "u1", "SUCCESS")
  /\ \E it \in cartItems :
       /\ cartItems = {it}
       /\ it.quantity = 2
       /\ it.unitPrice # books[it.bookId].price

\* C17: addItem with a quantity outside 1..999 fails with VALIDATION_FAILED,
\* else for a missing or soft-deleted book with RESOURCE_NOT_FOUND, else with
\* a quantity above the book's stock with UNPROCESSABLE_ENTITY; in each case
\* no CartItem row is created or changed.
C17_AddItemRejections ==
  [][\A u \in Users, b \in BookIds, q \in QuantityInputs :
       addItem(u, b, q)
       => /\ (q < 1 \/ q > 999)
               => resp'.code = "VALIDATION_FAILED" /\ cartItems' = cartItems
          /\ (q >= 1 /\ q <= 999 /\ (b \notin DOMAIN books \/ books[b].deleted))
               => resp'.code = "RESOURCE_NOT_FOUND" /\ cartItems' = cartItems
          /\ (q >= 1 /\ q <= 999 /\ b \in DOMAIN books /\ ~books[b].deleted
              /\ q > books[b].stock)
               => resp'.code = "UNPROCESSABLE_ENTITY" /\ cartItems' = cartItems]_vars

\* C17 witness: an addItem for more than the stock of a live book was rejected
\* and the cart holds no line.
C17_Witness ==
  /\ resp = Response("addItem", "u1", "UNPROCESSABLE_ENTITY")
  /\ cartItems = {}
  /\ \E b \in DOMAIN books : ~books[b].deleted /\ books[b].stock = 1

\* the rows of a table given as a sequence, each with its id
Rows(table) == {<<i, table[i]>> : i \in DOMAIN table}

\* the number of rows that a step writes: created, changed or deleted
WrittenRows ==
  Cardinality(Rows(carts') \ Rows(carts)) + Cardinality(Rows(books') \ Rows(books))
    + Cardinality({<<it.cartId, it.bookId>> :
                     it \in (cartItems' \ cartItems) \cup (cartItems \ cartItems')})
    + Cardinality(orders' \ orders) + Cardinality(orderItems' \ orderItems)

\* C18 as stated: a successful addItem writes exactly one row, the cart line,
\* and a rejected addItem writes no row at all, in particular no Cart row.
C18_AddItemWritesOneRow ==
  [][\A u \in Users, b \in BookIds, q \in QuantityInputs :
       addItem(u, b, q)
       => IF resp'.code = "SUCCESS"
          THEN WrittenRows = 1 /\ carts' = carts
          ELSE WrittenRows = 0]_vars

\* C18 as amended: addItem writes exactly one CartItem row, the created or
\* updated line, when it succeeds and no CartItem row when it is rejected; it
\* writes no Book, Order or OrderItem row; and it creates the caller's ACTIVE
\* Cart row exactly when the quantity is valid and the caller has no ACTIVE
\* cart, also when the call is then rejected.
C18_AddItemWritesOneLine ==
  [][\A u \in Users, b \in BookIds, q \in QuantityInputs :
       addItem(u, b, q)
       => /\ UNCHANGED <<books, orders, orderItems>>
          /\ IF resp'.code = "SUCCESS"
             THEN /\ Cardinality(cartItems' \ cartItems) = 1
                  /\ Cardinality(cartItems \ cartItems') <= 1
                  /\ \A old \in cartItems \ cartItems' : \E new \in cartItems' \ cartItems :
                       new.cartId = old.cartId /\ new.bookId = old.bookId
             ELSE cartItems' = cartItems
          /\ IF q >= 1 /\ q <= 999
                /\ ~\E c \in DOMAIN carts : carts[c].userId = u /\ carts[c].status = "ACTIVE"
             THEN carts' = Append(carts, [userId |-> u, status |-> "ACTIVE"])
             ELSE carts' = carts]_vars

\* C18 witness: the first addItem of a user was rejected for a missing book
\* and left the user an empty ACTIVE cart.
C18_Witness ==
  /\ resp = Response("addItem", "u2", "RESOURCE_NOT_FOUND")
  /\ \E c \in DOMAIN carts : carts[c].userId = "u2" /\ carts[c].status = "ACTIVE"
  /\ cartItems = {} /\ orders = {}

C20_RemoveItemIdempotent ==
  [][\A u \in Users, b \in BookIds :
       removeItem(u, b)
       => /\ resp'.code = "SUCCESS"
          /\ cartItems' = cartItems \ LinesOfUser(u, b)
          /\ \A it \in cartItems' :
               ~(it.bookId = b /\ carts'[it.cartId].userId = u
                 /\ carts'[it.cartId].status = "ACTIVE")
          /\ (resp = Response("removeItem", u, "SUCCESS") /\ LinesOfUser(u, b) = {})
               => UNCHANGED vars]_vars

\* C20 witness: a removeItem was answered with success while two books exist
\* and the caller's cart still holds one line.
C20_Witness ==
  /\ resp = Response("removeItem", "u1", "SUCCESS")
  /\ Cardinality(cartItems) = 1
  /\ Len(books) = 2
\* C21: once an order exists, no request changes its totalAmount or the
\* quantity, unitPrice or bookTitleSnapshot of any of its OrderItems: every
\* step keeps each Order row and each OrderItem row as it was.
C21_OrdersImmutable ==
  [][/\ \A o \in orders :
          \E n \in orders' :
            /\ n.id = o.id /\ n.totalAmount = o.totalAmount
            /\ \A x \in orders' : x.id = o.id => x = n
     /\ \A oi \in orderItems :
          \E n \in orderItems' :
            /\ n.orderId = oi.orderId /\ n.bookId = oi.bookId
            /\ n.quantity = oi.quantity /\ n.unitPrice = oi.unitPrice
            /\ n.bookTitleSnapshot = oi.bookTitleSnapshot
            /\ \A x \in orderItems' :
                 (x.orderId = oi.orderId /\ x.bookId = oi.bookId) => x = n]_vars

\* C21 witness: a first order still carries its title, unit price and total
\* although the book was retitled, repriced and soft-deleted since and the
\* customer placed a second order at the new title and price.
C21_Witness ==
  \E o1, o2 \in orders : \E i1, i2 \in orderItems :
    /\ o1.id < o2.id
    /\ i1.orderId = o1.id /\ i2.orderId = o2.id
    /\ i1.bookTitleSnapshot # i2.bookTitleSnapshot
    /\ i1.unitPrice # i2.unitPrice
    /\ o1.totalAmount = i1.unitPrice * i1.quantity
    /\ books[i1.bookId].deleted
    /\ books[i1.bookId].title # i1.bookTitleSnapshot
    /\ books[i1.bookId].price # i1.unitPrice
LiveCommentIds(r) ==
  {c \in DOMAIN comments : comments[c].reviewId = r /\ ~comments[c].deleted}

\* C23: starting with no comment, after any sequence of createComment and
\* deleteComment requests run one at a time, a repeated delete of the same
\* comment included, every review's commentCount is the number of its
\* non-deleted comments.
C23_CommentCountMatches ==
  \A r \in DOMAIN reviews : reviews[r].commentCount = Cardinality(LiveCommentIds(r))

\* C23 witness: a delete of an already deleted comment was answered while the
\* review holds one other, live comment: commentCount is 1.
C23_Witness ==
  /\ resp.op = "deleteComment" /\ resp.code = "SUCCESS"
  /\ Len(comments) = 2
  /\ \E c \in DOMAIN comments : comments[c].deleted /\ comments[c].userId = resp.user
  /\ Cardinality(LiveCommentIds(1)) = 1
  /\ reviews[1].commentCount = 1
\* C24: likeReview on a review and likeComment on a comment that does not
\* exist or is soft-deleted are answered RESOURCE_NOT_FOUND, create no like
\* row and change no likeCount.
C24_LikeOfMissingTarget ==
  [][\A u \in Users :
       /\ \A r \in 1..(Len(reviews) + 1) :
            (~LiveReview(reviews, r) /\ likeReview(u, r))
            => /\ resp'.code = "RESOURCE_NOT_FOUND"
               /\ reviewLikes' = reviewLikes /\ reviews' = reviews
       /\ \A c \in 1..(Len(comments) + 1) :
            ((c \notin DOMAIN comments \/ comments[c].deleted) /\ likeComment(u, c))
            => /\ resp'.code = "RESOURCE_NOT_FOUND"
               /\ commentLikes' = commentLikes /\ comments' = comments]_vars
\* C25: a cart keeps its owner, and its status changes only from ACTIVE to
\* CHECKED_OUT and only in a successful checkout of its owner; no request
\* sets a cart to ABANDONED and a CHECKED_OUT cart never becomes ACTIVE again.
C25_CartStatusTransitions ==
  [][/\ \A c \in DOMAIN carts :
          /\ c \in DOMAIN carts'
          /\ carts'[c].userId = carts[c].userId
          /\ carts'[c].status # carts[c].status
               => /\ carts[c].status = "ACTIVE"
                  /\ carts'[c].status = "CHECKED_OUT"
                  /\ resp' = Response("checkout", carts[c].userId, "SUCCESS")
     /\ \A c \in DOMAIN carts' : carts'[c].status # "ABANDONED"
     /\ \A c \in DOMAIN carts' \ DOMAIN carts : carts'[c].status = "ACTIVE"]_vars

\* C25 witness: a user's first cart is still CHECKED_OUT after the user got
\* a new ACTIVE cart and changed a line in it.
C25_Witness ==
  /\ resp.op \in {"updateItem", "removeItem"} /\ resp.code = "SUCCESS"
  /\ \E c1, c2 \in DOMAIN carts :
       /\ c1 < c2
       /\ carts[c1].userId = resp.user /\ carts[c2].userId = resp.user
       /\ carts[c1].status = "CHECKED_OUT" /\ carts[c2].status = "ACTIVE"
       /\ \E o \in orders : o.cartId = c1
\* C26: the cart-item upsert of addItem loses no update: of two concurrent
\* addItem requests of one user for one book, each one that returns success
\* raises the line's committed quantity (0 when there is no line) by its own
\* quantity, so that when both succeed the final quantity is the prior
\* quantity plus q1 plus q2.
C26_UpsertLosesNoUpdate ==
  [][\A t \in TxIds :
       (txs[1].user = txs[2].user
        /\ txs[t].pc # "done" /\ txs'[t].pc = "done" /\ txs'[t].code = "SUCCESS")
       => QuantityIn(cartItems', txs[t].cart, 1)
            = QuantityIn(cartItems, txs[t].cart, 1) + txs[t].q]_vars
\* C27: once two concurrent likeReview requests of u1 on a live review that
\* u1 had not liked have both ended, there is exactly one ReviewLike row of
\* u1 on the review, likeCount has grown by exactly 1 (it counts the like
\* rows as before), and both requests were answered with success.
C27_ConcurrentLikesBothSucceed ==
  ( /\ \A t \in TxIds : txs[t].user = "u1" /\ txs[t].pc = "done"
    /\ ~reviews[1].deleted )
  => /\ ReviewLike("u1", 1) \in reviewLikes
     /\ reviews[1].likeCount = Cardinality(reviewLikes)
     /\ \A t \in TxIds : txs[t].code = "SUCCESS"
\* C28: in every reachable state every cart line has a quantity between 1
\* and 999, also after repeated addItem calls on the same line.
C28_LineQuantityInRange ==
  \A it \in cartItems : it.quantity >= MinQuantity /\ it.quantity <= MaxQuantity
\* C29: listCart, addItem, updateItem and removeItem leave the Book table as
\* it is (no stock, price or title changes: a cart reserves nothing); a
\* book's stock changes only in a committed checkout or in a successful admin
\* book update.
C29_CartLeavesBooks ==
  [][/\ resp'.op \in {"listCart", "addItem", "updateItem", "removeItem"}
          => books' = books
     /\ \A b \in DOMAIN books :
          books'[b].stock # books[b].stock
          => /\ resp'.op \in {"checkout", "updateBook"}
             /\ resp'.code = "SUCCESS"]_vars

\* C29 witness: after a successful addItem the cart holds a line for the
\* whole stock of a book, and after a removeItem the stock is still there.
C29_Witness ==
  /\ resp = Response("removeItem", "u1", "SUCCESS")
  /\ orders = {}
  /\ \E it \in cartItems :
       /\ it.quantity = MaxStock /\ books[it.bookId].stock = MaxStock
  /\ \E b \in DOMAIN books :
       /\ books[b].stock = MaxStock
       /\ \A it \in cartItems : it.bookId # b
\* C30: starting from the seeded database, after any sequence of like,
\* unlike, createComment, deleteComment and review requests, every review's
\* likeCount and commentCount and every comment's likeCount is >= 0.
C30_CountersNeverNegative ==
  /\ \A r \in DOMAIN reviews :
       reviews[r].likeCount >= 0 /\ reviews[r].commentCount >= 0
  /\ \A c \in DOMAIN comments : comments[c].likeCount >= 0
====
